---- MODULE Spec2Model ----
(***************************************************************************)
(* Cartographer (skills/cartography/scripts/cartographer.py): glob pattern *)
(* matching, file selection, content and folder digests, and the           *)
(* init / changes / update workflow over one persisted snapshot.           *)
(*                                                                         *)
(* Python strings are sequences of one-character strings, so that          *)
(* re.escape, str.replace, startswith, split and sorting are computed      *)
(* character by character as the code computes them.                       *)
(***************************************************************************)
EXTENDS Integers, Sequences, FiniteSets, TLC

VARIABLES
    files,      \* the tree under the root: path -> file state
    snapshot,   \* the file <root>/.slim/cartography.json
    report,     \* the last operation, its exit code and, for `changes`, its finding
    lastWrite,  \* the last operation other than `changes` that was run
    mat,        \* PatternMatcher harness: patterns, path, result
    sel,        \* select_files harness: tree, pattern lists, result
    dif         \* change detector harness: saved and current digests, result

vars == <<files, snapshot, report, lastWrite, mat, sel, dif>>

(***************************************************************************)
(* Bounds.                                                                 *)
(***************************************************************************)
MaxContent == 2
MaxTime == 2

(***************************************************************************)
(* String helpers (Python str methods).                                    *)
(***************************************************************************)
startswith(s, prefix) ==
    /\ Len(prefix) <= Len(s)
    /\ SubSeq(s, 1, Len(prefix)) = prefix

endswith(s, suffix) ==
    /\ Len(suffix) <= Len(s)
    /\ SubSeq(s, Len(s) - Len(suffix) + 1, Len(s)) = suffix

RECURSIVE str_replace(_, _, _)
\* s.replace(old, new): leftmost, non-overlapping occurrences (old is non-empty).
str_replace(s, old, new) ==
    IF Len(s) < Len(old) THEN s
    ELSE IF SubSeq(s, 1, Len(old)) = old
         THEN new \o str_replace(SubSeq(s, Len(old) + 1, Len(s)), old, new)
         ELSE <<Head(s)>> \o str_replace(Tail(s), old, new)

Whitespace == {" ", "\t", "\n", "\r"}

RECURSIVE lstrip(_)
lstrip(s) == IF s # <<>> /\ Head(s) \in Whitespace THEN lstrip(Tail(s)) ELSE s

RECURSIVE rstrip(_)
rstrip(s) ==
    IF s # <<>> /\ s[Len(s)] \in Whitespace THEN rstrip(SubSeq(s, 1, Len(s) - 1)) ELSE s

str_strip(s) == rstrip(lstrip(s))

RECURSIVE str_split(_, _)
\* s.split(sep) for a one-character sep: the sequence of fields.
str_split(s, sep) ==
    IF \A i \in 1..Len(s) : s[i] # sep THEN <<s>>
    ELSE LET i == CHOOSE k \in 1..Len(s) : s[k] = sep /\ \A j \in 1..(k - 1) : s[j] # sep
         IN  <<SubSeq(s, 1, i - 1)>> \o str_split(SubSeq(s, i + 1, Len(s)), sep)

RECURSIVE str_join(_, _)
\* sep.join(parts)
str_join(sep, parts) ==
    IF parts = <<>> THEN <<>>
    ELSE IF Len(parts) = 1 THEN parts[1]
    ELSE parts[1] \o sep \o str_join(sep, Tail(parts))

\* Characters in code point order, for Python's string comparison.
CodePointOrder ==
    <<"\t", "\n", "\r", " ", "#", "*", "-", ".", "/", "0", "1", "2", "3", "4", "5", "6", "7",
      "8", "9", ":", "?", "A", "B", "C", "D", "E", "F", "G", "H", "I", "J", "K", "L", "M",
      "N", "O", "P", "Q", "R", "S", "T", "U", "V", "W", "X", "Y", "Z", "\\", "_", "a", "b",
      "c", "d", "e", "f", "g", "h", "i", "j", "k", "l", "m", "n", "o", "p", "q", "r", "s",
      "t", "u", "v", "w", "x", "y", "z">>

OrdTable ==
    [c \in {CodePointOrder[i] : i \in 1..Len(CodePointOrder)} |->
        CHOOSE i \in 1..Len(CodePointOrder) : CodePointOrder[i] = c]

ord(c) == OrdTable[c]

\* a < b for two Python strings.
str_less(a, b) ==
    \E i \in 1..(Len(a) + 1) :
        /\ i <= Len(b)
        /\ \A j \in 1..(i - 1) : a[j] = b[j]
        /\ i = Len(a) + 1 \/ ord(a[i]) < ord(b[i])

\* The elements of a list.
seq_set(s) == {s[i] : i \in 1..Len(s)}

(***************************************************************************)
(* Module constants.                                                       *)
(***************************************************************************)
VERSION == <<"1", ".", "0", ".", "0">>
STATE_DIR == <<".", "s", "l", "i", "m">>
STATE_FILE == <<"c", "a", "r", "t", "o", "g", "r", "a", "p", "h", "y", ".", "j", "s", "o", "n">>
CODEMAP_FILE == <<"c", "o", "d", "e", "m", "a", "p", ".", "m", "d">>
GITIGNORE_FILE == <<".", "g", "i", "t", "i", "g", "n", "o", "r", "e">>
DEFAULT_INCLUDE == << <<"*", "*", "/", "*">> >>
RootFolder == <<".">>

(***************************************************************************)
(* Python's re, for the regular expressions PatternMatcher builds.         *)
(***************************************************************************)
\* The characters re.escape puts a backslash before (Python 3.7+).
re_special ==
    {"(", ")", "[", "]", "{", "}", "?", "*", "+", "-", "|", "^", "$", "\\", ".",
     "&", "~", "#", " ", "\t", "\n", "\r"}

RECURSIVE re_escape(_)
re_escape(s) ==
    IF s = <<>> THEN <<>>
    ELSE (IF Head(s) \in re_special THEN <<"\\", Head(s)>> ELSE <<Head(s)>>)
         \o re_escape(Tail(s))

\* Regex source texts the compiler inserts.
RE_OPTDIRS == <<"(", "?", ":", ".", "*", "/", ")", "?">>
RE_DOTSTAR == <<".", "*">>
RE_NOTSLASHSTAR == <<"[", "^", "/", "]", "*">>
RE_DOT == <<".">>

\* Parsed regex items: <<kind, character>>.
Lit(c) == <<"lit", c>>
Dot == <<"dot", "">>
DotStar == <<"dotstar", "">>
NotSlashStar == <<"notslashstar", "">>
OptDirs == <<"optdirs", "">>
Bol == <<"bol", "">>
Eol == <<"eol", "">>
Eos == <<"eos", "">>

RECURSIVE re_parse(_)
\* The items of a regex text made of escaped literals and the inserted texts.
re_parse(r) ==
    IF r = <<>> THEN <<>>
    ELSE IF startswith(r, RE_OPTDIRS)
         THEN <<OptDirs>> \o re_parse(SubSeq(r, Len(RE_OPTDIRS) + 1, Len(r)))
    ELSE IF startswith(r, RE_NOTSLASHSTAR)
         THEN <<NotSlashStar>> \o re_parse(SubSeq(r, Len(RE_NOTSLASHSTAR) + 1, Len(r)))
    ELSE IF startswith(r, RE_DOTSTAR)
         THEN <<DotStar>> \o re_parse(SubSeq(r, 3, Len(r)))
    ELSE IF Head(r) = "."
         THEN <<Dot>> \o re_parse(Tail(r))
    ELSE IF Head(r) = "\\" /\ Len(r) >= 2
         THEN <<Lit(r[2])>> \o re_parse(SubSeq(r, 3, Len(r)))
    ELSE <<Lit(Head(r))>> \o re_parse(Tail(r))

RECURSIVE re_match(_, _, _)
\* Whether the items match s from position i (1-based) on. Without flags:
\* '.' is any character but a newline, '^' is the start of the string, and
\* '$' is the end of the string or just before a newline that ends it.
re_match(items, s, i) ==
    IF items = <<>> THEN TRUE
    ELSE LET t == Head(items)
             rest == Tail(items)
         IN  CASE t[1] = "lit" -> i <= Len(s) /\ s[i] = t[2] /\ re_match(rest, s, i + 1)
               [] t[1] = "dot" -> i <= Len(s) /\ s[i] # "\n" /\ re_match(rest, s, i + 1)
               [] t[1] = "dotstar" ->
                     \E j \in i..(Len(s) + 1) :
                         /\ \A k \in i..(j - 1) : s[k] # "\n"
                         /\ re_match(rest, s, j)
               [] t[1] = "notslashstar" ->
                     \E j \in i..(Len(s) + 1) :
                         /\ \A k \in i..(j - 1) : s[k] # "/"
                         /\ re_match(rest, s, j)
               [] t[1] = "optdirs" ->
                     \/ re_match(rest, s, i)
                     \/ re_match(<<DotStar, Lit("/")>> \o rest, s, i)
               [] t[1] = "bol" -> i = 1 /\ re_match(rest, s, i)
               [] t[1] = "eol" ->
                     /\ \/ i = Len(s) + 1
                        \/ i = Len(s) /\ s[i] = "\n"
                     /\ re_match(rest, s, i)
               [] t[1] = "eos" -> i = Len(s) + 1 /\ re_match(rest, s, i)

\* regex.search(path): some alternative matches from some position.
re_search(alternatives, path) ==
    \E start \in 1..(Len(path) + 1) :
        \E alt \in alternatives : re_match(alt, path, start)

(***************************************************************************)
(* PatternMatcher.                                                         *)
(***************************************************************************)
\* The regex text of one pattern before it is anchored (the loop body up to
\* the append of '.*' for a directory pattern).
glob_fragment(pattern) ==
    LET reg0 == re_escape(pattern)
        reg1 == str_replace(reg0, <<"\\", "*", "\\", "*", "/">>, RE_OPTDIRS)
        reg2 == str_replace(reg1, <<"\\", "*", "\\", "*">>, RE_DOTSTAR)
        reg3 == str_replace(reg2, <<"\\", "*">>, RE_NOTSLASHSTAR)
        reg4 == str_replace(reg3, <<"\\", "?">>, RE_DOT)
    IN  IF endswith(pattern, <<"/">>) THEN reg4 \o RE_DOTSTAR ELSE reg4

\* The alternatives of '(?:' + anchored reg + '$)' for one pattern:
\* '^' + reg[1:] for a pattern with a leading '/', else '(?:^|.*/)' + reg.
regex_part(pattern) ==
    LET reg == glob_fragment(pattern)
    IN  IF startswith(pattern, <<"/">>)
        THEN {<<Bol>> \o re_parse(Tail(reg)) \o <<Eol>>}
        ELSE {<<Bol>> \o re_parse(reg) \o <<Eol>>,
              <<DotStar, Lit("/")>> \o re_parse(reg) \o <<Eol>>}

\* PatternMatcher.__init__: self.regex, None for an empty list. `source`
\* keeps the list the regex was compiled from (the regex object's pattern).
compile_patterns(patterns) ==
    IF patterns = <<>>
    THEN [compiled |-> FALSE, source |-> patterns, alternatives |-> {}]
    ELSE [compiled |-> TRUE, source |-> patterns,
          alternatives |-> UNION {regex_part(patterns[i]) : i \in 1..Len(patterns)}]

\* The pattern lists and paths of the command workflow, whose matchers and
\* match results are computed once and looked up afterwards.
MemoPatternLists ==
    {DEFAULT_INCLUDE, <<<<"*", ".", "t", "s">>>>, <<<<"a", "/">>>>}
MemoPaths ==
    {<<"r", ".", "t", "s">>, <<"a", "/", "b", "/", "c", ".", "t", "s">>,
     CODEMAP_FILE, <<"a", "/">> \o CODEMAP_FILE, <<"a", "/", "b", "/">> \o CODEMAP_FILE,
     GITIGNORE_FILE, STATE_DIR \o <<"/">> \o STATE_FILE}
MatcherMemo == [patterns \in MemoPatternLists |-> compile_patterns(patterns)]
SearchMemo ==
    [patterns \in MemoPatternLists |->
        [path \in MemoPaths |-> re_search(MatcherMemo[patterns].alternatives, path)]]

PatternMatcher(patterns) ==
    IF patterns \in MemoPatternLists THEN MatcherMemo[patterns]
    ELSE compile_patterns(patterns)

\* PatternMatcher.matches
matches(matcher, path) ==
    IF ~matcher.compiled THEN FALSE
    ELSE IF matcher.source \in MemoPatternLists /\ path \in MemoPaths
         THEN SearchMemo[matcher.source][path]
         ELSE re_search(matcher.alternatives, path)

(***************************************************************************)
(* load_gitignore: the text of <root>/.gitignore, a sequence of lines.     *)
(***************************************************************************)
RECURSIVE gitignore_lines(_)
\* The loop over the lines: strip, keep what is non-empty and no comment.
gitignore_lines(lines) ==
    IF lines = <<>> THEN <<>>
    ELSE LET line == str_strip(Head(lines))
         IN  (IF line # <<>> /\ ~startswith(line, <<"#">>) THEN <<line>> ELSE <<>>)
             \o gitignore_lines(Tail(lines))

(***************************************************************************)
(* select_files over a tree: the set of relative paths of the files that   *)
(* exist under the root.                                                   *)
(***************************************************************************)
\* path.split("/") without the empty components.
split_parts(path) == SelectSeq(str_split(path, "/"), LAMBDA x : x # <<>>)

\* The parts of the paths of the command workflow, computed once.
PartsMemo == [path \in MemoPaths |-> split_parts(path)]

\* Path(path).parts for a relative path.
path_parts(path) == IF path \in MemoPaths THEN PartsMemo[path] ELSE split_parts(path)

\* rel.parts[:-1]: the directory components of a relative path.
parent_parts(path) ==
    LET parts == path_parts(path)
    IN  SubSeq(parts, 1, Len(parts) - 1)

\* a < b for two lists of path components, as Python compares lists of strings.
parts_less(pa, pb) ==
    \E i \in 1..(Len(pa) + 1) :
        /\ i <= Len(pb)
        /\ \A j \in 1..(i - 1) : pa[j] = pb[j]
        /\ i = Len(pa) + 1 \/ str_less(pa[i], pb[i])

\* The order of the paths of the command workflow, computed once.
PathLessMemo ==
    [a \in MemoPaths |-> [b \in MemoPaths |-> parts_less(PartsMemo[a], PartsMemo[b])]]

\* root / a < root / b: pure paths compare by their parts.
path_less(a, b) ==
    IF a \in MemoPaths /\ b \in MemoPaths THEN PathLessMemo[a][b]
    ELSE parts_less(path_parts(a), path_parts(b))

RECURSIVE sorted_paths(_)
\* sorted(selected)
sorted_paths(paths) ==
    IF paths = {} THEN <<>>
    ELSE LET first == CHOOSE p \in paths : \A q \in paths \ {p} : path_less(p, q)
         IN  <<first>> \o sorted_paths(paths \ {first})

\* os.walk that descends into every directory.
os_walk_unpruned(tree) == tree

\* os.walk with dirnames[:] pruned of names that start with '.': the files
\* reached are those with no directory component starting with '.'.
os_walk(tree) ==
    {p \in tree :
        LET dirs == parent_parts(p)
        IN  \A i \in 1..Len(dirs) : ~startswith(dirs[i], <<".">>)}

\* The loop of select_files with the exception test moved before the ignore test.
select_loop_exception_first(walked, include_matcher, exclude_matcher, exception_set, gitignore_matcher) ==
    {rel_path \in walked :
        \/ rel_path \in exception_set
        \/ /\ ~matches(gitignore_matcher, rel_path)
           /\ ~matches(exclude_matcher, rel_path)
           /\ matches(include_matcher, rel_path)}

select_files_exception_first(tree, include_patterns, exclude_patterns, exceptions, gitignore_patterns) ==
    sorted_paths(select_loop_exception_first(os_walk(tree),
                                             PatternMatcher(include_patterns),
                                             PatternMatcher(exclude_patterns),
                                             seq_set(exceptions),
                                             PatternMatcher(gitignore_patterns)))

\* The loop of select_files without the exception test inside the exclusion branch.
select_loop_exclude_absolute(walked, include_matcher, exclude_matcher, exception_set, gitignore_matcher) ==
    {rel_path \in walked :
        /\ ~matches(gitignore_matcher, rel_path)
        /\ ~matches(exclude_matcher, rel_path)
        /\ (matches(include_matcher, rel_path) \/ rel_path \in exception_set)}

select_files_exclude_absolute(tree, include_patterns, exclude_patterns, exceptions, gitignore_patterns) ==
    sorted_paths(select_loop_exclude_absolute(os_walk(tree),
                                              PatternMatcher(include_patterns),
                                              PatternMatcher(exclude_patterns),
                                              seq_set(exceptions),
                                              PatternMatcher(gitignore_patterns)))

\* The loop body of select_files over the files walked: a file is kept unless
\* it is ignored, or excluded and no exception, and then only when it is
\* included or an exception.
select_loop(walked, include_matcher, exclude_matcher, exception_set, gitignore_matcher) ==
    {rel_path \in walked :
        /\ ~matches(gitignore_matcher, rel_path)
        /\ ~(matches(exclude_matcher, rel_path) /\ rel_path \notin exception_set)
        /\ (matches(include_matcher, rel_path) \/ rel_path \in exception_set)}

\* select_files: the relative paths selected, as sorted(selected) orders the
\* Path objects root / rel_path.
select_files(tree, include_patterns, exclude_patterns, exceptions, gitignore_patterns) ==
    sorted_paths(select_loop(os_walk(tree),
                             PatternMatcher(include_patterns),
                             PatternMatcher(exclude_patterns),
                             seq_set(exceptions),
                             PatternMatcher(gitignore_patterns)))

(***************************************************************************)
(* PatternMatcher harness: one call of matches on drawn inputs.            *)
(***************************************************************************)
Pat_node_modules == <<"n", "o", "d", "e", "_", "m", "o", "d", "u", "l", "e", "s", "/">>
Pat_dist == <<"d", "i", "s", "t", "/">>
Pat_log == <<"*", ".", "l", "o", "g">>
Pat_src_ts == <<"s", "r", "c", "/", "*", "*", "/", "*", ".", "t", "s">>
Pat_package_json == <<"p", "a", "c", "k", "a", "g", "e", ".", "j", "s", "o", "n">>
Pat_test_ts == <<"*", "*", "/", "*", ".", "t", "e", "s", "t", ".", "t", "s">>
Pat_ts == <<"*", ".", "t", "s">>
Pat_md == <<"*", ".", "m", "d">>
Pat_a_dir == <<"a", "/">>
Pat_rooted_ts == <<"/", "*", ".", "t", "s">>
Pat_rooted_a_dir == <<"/", "a", "/">>
Pat_a == <<"a">>
Pat_a_any == <<"a", "?">>

Path_nm_foo == <<"n", "o", "d", "e", "_", "m", "o", "d", "u", "l", "e", "s", "/", "f", "o", "o", ".", "j", "s">>
Path_vendor_nm_bar ==
    <<"v", "e", "n", "d", "o", "r", "/", "n", "o", "d", "e", "_", "m", "o", "d", "u", "l", "e",
      "s", "/", "b", "a", "r", ".", "j", "s">>
Path_dist_main == <<"d", "i", "s", "t", "/", "m", "a", "i", "n", ".", "j", "s">>
Path_src_dist_output ==
    <<"s", "r", "c", "/", "d", "i", "s", "t", "/", "o", "u", "t", "p", "u", "t", ".", "j", "s">>
Path_error_log == <<"e", "r", "r", "o", "r", ".", "l", "o", "g">>
Path_logs_access == <<"l", "o", "g", "s", "/", "a", "c", "c", "e", "s", "s", ".", "l", "o", "g">>
Path_src_index == <<"s", "r", "c", "/", "i", "n", "d", "e", "x", ".", "t", "s">>
Path_src_index_test ==
    <<"s", "r", "c", "/", "i", "n", "d", "e", "x", ".", "t", "e", "s", "t", ".", "t", "s">>
Path_src_utils_helper ==
    <<"s", "r", "c", "/", "u", "t", "i", "l", "s", "/", "h", "e", "l", "p", "e", "r", ".", "t", "s">>
Path_README == <<"R", "E", "A", "D", "M", "E", ".", "m", "d">>
Path_tests_test == <<"t", "e", "s", "t", "s", "/", "t", "e", "s", "t", ".", "p", "y">>
Path_package_json == <<"p", "a", "c", "k", "a", "g", "e", ".", "j", "s", "o", "n">>
Path_hidden == <<".", "h", "/", "k", ".", "t", "s">>
Path_r == <<"r", ".", "t", "s">>
Path_abc == <<"a", "/", "b", "/", "c", ".", "t", "s">>
Path_a == <<"a">>
Path_a_newline == <<"a", "\n">>
Path_b_a == <<"b", "/", "a">>
Path_a_b == <<"a", "/", "b">>
Path_ab == <<"a", "b">>

TestPatterns == <<Pat_node_modules, Pat_dist, Pat_log, Pat_src_ts>>

MatchPatternLists ==
    {<<>>, TestPatterns, <<Pat_node_modules>>, <<Pat_log>>, <<Pat_src_ts>>, DEFAULT_INCLUDE,
     <<Pat_a>>, <<Pat_a_any>>, <<Pat_a_dir>>, <<Pat_rooted_a_dir>>, <<Pat_rooted_ts>>,
     <<Pat_ts, Pat_rooted_a_dir>>}

MatchPaths ==
    {Path_nm_foo, Path_vendor_nm_bar, Path_dist_main, Path_src_dist_output, Path_error_log,
     Path_logs_access, Path_src_index, Path_src_utils_helper, Path_README, Path_tests_test,
     Path_r, Path_abc, Path_a, Path_a_newline, Path_b_a, Path_a_b, Path_ab, <<>>}

NoMatchCall == [patterns |-> <<>>, path |-> <<>>, done |-> FALSE, result |-> FALSE]
NoSelectCall ==
    [tree |-> {}, include |-> <<>>, exclude |-> <<>>, exceptions |-> <<>>,
     gitignore |-> <<>>, done |-> FALSE, selected |-> <<>>]

NoDiffCall ==
    [saved |-> <<>>, current |-> <<>>, done |-> FALSE,
     added |-> {}, removed |-> {}, modified |-> {}, affected |-> {}]

\* The variables of the command workflow, before any command has run.
NoFile == [kind |-> "absent", v |-> 0]
NoState == [tag |-> "absent"]
NoReport ==
    [cmd |-> "none", exit |-> 0, current |-> <<>>,
     added |-> {}, removed |-> {}, modified |-> {}, affected |-> {}]

InitMatch ==
    /\ mat \in {[patterns |-> pl, path |-> p, done |-> FALSE, result |-> FALSE] :
                    pl \in MatchPatternLists, p \in MatchPaths}
    /\ sel = NoSelectCall
    /\ dif = NoDiffCall
    /\ files = <<>>
    /\ snapshot = NoState
    /\ report = NoReport
    /\ lastWrite = "none"

\* matcher = PatternMatcher(patterns); matcher.matches(path)
MatchCall ==
    /\ ~mat.done
    /\ mat' = [mat EXCEPT !.done = TRUE,
                          !.result = matches(PatternMatcher(mat.patterns), mat.path)]
    /\ UNCHANGED <<files, snapshot, report, lastWrite, sel, dif>>

NextMatch == MatchCall

SpecMatch == InitMatch /\ [][NextMatch]_vars

(***************************************************************************)
(* select_files harness: one call on a drawn tree and drawn pattern lists. *)
(***************************************************************************)
TestIncludes == <<Pat_src_ts, Pat_package_json>>
TestExcludes == <<Pat_test_ts, Pat_node_modules>>
TestTree == {Path_src_index, Path_src_index_test, Path_nm_foo, Path_package_json}

SelectTrees == SUBSET (TestTree \cup {Path_hidden})
SelectIncludes == {<<>>, DEFAULT_INCLUDE, TestIncludes}
SelectExcludes == {<<>>, TestExcludes}
SelectExceptions == {<<>>, <<Path_src_index_test>>, <<Path_nm_foo, Path_hidden>>}
SelectGitignores == {<<>>, <<Pat_node_modules>>, <<Pat_ts>>}

InitSelect ==
    /\ sel \in {[tree |-> t, include |-> i, exclude |-> e, exceptions |-> x,
                 gitignore |-> g, done |-> FALSE, selected |-> <<>>] :
                    t \in SelectTrees, i \in SelectIncludes, e \in SelectExcludes,
                    x \in SelectExceptions, g \in SelectGitignores}
    /\ mat = NoMatchCall
    /\ dif = NoDiffCall
    /\ files = <<>>
    /\ snapshot = NoState
    /\ report = NoReport
    /\ lastWrite = "none"

\* selected = select_files(root, includes, excludes, exceptions, gitignore)
SelectCall ==
    /\ ~sel.done
    /\ sel' = [sel EXCEPT !.done = TRUE,
                          !.selected = select_files(sel.tree, sel.include, sel.exclude,
                                                    sel.exceptions, sel.gitignore)]
    /\ UNCHANGED <<files, snapshot, report, lastWrite, mat, dif>>

NextSelect == SelectCall

SpecSelect == InitSelect /\ [][NextSelect]_vars

(***************************************************************************)
(* Files and digests. md5 is taken as injective: a digest is the value     *)
(* hashed, tagged; the empty string the code returns for an unreadable     *)
(* file or an empty folder is the digest tagged "".                        *)
(***************************************************************************)
Unreadable == [kind |-> "unreadable", v |-> 0]
Data(n) == [kind |-> "data", v |-> n]
CodemapStub == [kind |-> "codemap", v |-> 0]
GitignoreText(n) == [kind |-> "gitignore", v |-> n]

md5(content) == [kind |-> "md5", of |-> content]
SentinelDigest == [kind |-> "", of |-> NoFile]
FolderSentinel == [kind |-> "", of |-> <<>>]

\* compute_file_hash: the digest of the content, "" when open or read fails.
compute_file_hash(file) ==
    IF file.kind = "unreadable" THEN SentinelDigest ELSE md5(file)

RECURSIVE sorted_items(_, _)
\* sorted((path, file_hashes[path]) for path in paths)
sorted_items(file_hashes, paths) ==
    IF paths = {} THEN <<>>
    ELSE LET first == CHOOSE p \in paths : \A q \in paths \ {p} : str_less(p, q)
         IN  <<<<first, file_hashes[first]>>>> \o sorted_items(file_hashes, paths \ {first})

\* compute_folder_hash with the root folder taking every tracked file.
compute_folder_hash_subtree(folder, file_hashes) ==
    LET folder_files == sorted_items(file_hashes, 
                            {path \in DOMAIN file_hashes :
                                folder = RootFolder \/ startswith(path, folder \o <<"/">>)})
    IN  IF folder_files = <<>> THEN FolderSentinel ELSE md5(folder_files)

\* compute_folder_hash
compute_folder_hash(folder, file_hashes) ==
    LET folder_files == sorted_items(file_hashes,
                            {path \in DOMAIN file_hashes :
                                \/ startswith(path, folder \o <<"/">>)
                                \/ folder = RootFolder /\ \A i \in 1..Len(path) : path[i] # "/"})
    IN  IF folder_files = <<>> THEN FolderSentinel ELSE md5(folder_files)

\* The folders named by the directory components of one path.
ancestor_folders(path) ==
    LET parts == parent_parts(path)
    IN  {str_join(<<"/">>, SubSeq(parts, 1, i)) : i \in 1..Len(parts)}

\* get_folders_with_files
get_folders_with_files(selected) ==
    UNION {ancestor_folders(selected[i]) : i \in 1..Len(selected)} \cup {RootFolder}

(***************************************************************************)
(* Change detector: the body of cmd_changes after the two digest maps are  *)
(* known (the sets printed, and the affected folders when any is non-empty).*)
(***************************************************************************)
\* The change detector with the affected folders read off the current map.
detect_changes_current_folders(saved_hashes, current_hashes) ==
    LET added == DOMAIN current_hashes \ DOMAIN saved_hashes
        removed == DOMAIN saved_hashes \ DOMAIN current_hashes
        modified == {path \in DOMAIN current_hashes \cap DOMAIN saved_hashes :
                        current_hashes[path] # saved_hashes[path]}
    IN  [added |-> added, removed |-> removed, modified |-> modified,
         affected |-> IF added \cup removed \cup modified = {} THEN {}
                      ELSE UNION {ancestor_folders(path) \cup {RootFolder} :
                                      path \in DOMAIN current_hashes}]

\* The change detector with `modified` taken over every current path.
detect_changes_modified_all(saved_hashes, current_hashes) ==
    LET added == DOMAIN current_hashes \ DOMAIN saved_hashes
        removed == DOMAIN saved_hashes \ DOMAIN current_hashes
        modified == {path \in DOMAIN current_hashes :
                        \/ path \notin DOMAIN saved_hashes
                        \/ current_hashes[path] # saved_hashes[path]}
    IN  [added |-> added, removed |-> removed, modified |-> modified,
         affected |-> IF added \cup removed \cup modified = {} THEN {}
                      ELSE UNION {ancestor_folders(path) \cup {RootFolder} :
                                      path \in added \cup removed \cup modified}]

detect_changes(saved_hashes, current_hashes) ==
    LET added == DOMAIN current_hashes \ DOMAIN saved_hashes
        removed == DOMAIN saved_hashes \ DOMAIN current_hashes
        modified == {path \in DOMAIN current_hashes \cap DOMAIN saved_hashes :
                        current_hashes[path] # saved_hashes[path]}
    IN  [added |-> added, removed |-> removed, modified |-> modified,
         affected |-> IF added \cup removed \cup modified = {} THEN {}
                      ELSE UNION {ancestor_folders(path) \cup {RootFolder} :
                                      path \in added \cup removed \cup modified}]

(***************************************************************************)
(* Change detector harness: one diff of two drawn digest maps.             *)
(***************************************************************************)
Path_ax == <<"a", "/", "x", ".", "t", "s">>
DiffPaths == {Path_r, Path_ax, Path_abc}
DiffDigests == {SentinelDigest} \cup {md5(Data(n)) : n \in 1..MaxContent}
DiffMaps == UNION {[paths -> DiffDigests] : paths \in SUBSET DiffPaths}

InitDiff ==
    /\ dif \in {[saved |-> s, current |-> c, done |-> FALSE,
                 added |-> {}, removed |-> {}, modified |-> {}, affected |-> {}] :
                    s \in DiffMaps, c \in DiffMaps}
    /\ mat = NoMatchCall
    /\ sel = NoSelectCall
    /\ files = <<>>
    /\ snapshot = NoState
    /\ report = NoReport
    /\ lastWrite = "none"

DiffCall ==
    /\ ~dif.done
    /\ LET found == detect_changes(dif.saved, dif.current)
       IN  dif' = [dif EXCEPT !.done = TRUE,
                              !.added = found.added,
                              !.removed = found.removed,
                              !.modified = found.modified,
                              !.affected = found.affected]
    /\ UNCHANGED <<files, snapshot, report, lastWrite, mat, sel>>

NextDiff == DiffCall

SpecDiff == InitDiff /\ [][NextDiff]_vars

(***************************************************************************)
(* The repository on disk and the three commands.                          *)
(***************************************************************************)
RepoRoot == <<"/", "r", "e", "p", "o">>
StatePath == STATE_DIR \o <<"/">> \o STATE_FILE
UserPaths == {Path_r, Path_abc}
Folder_a == <<"a">>
Folder_ab == <<"a", "/", "b">>

\* folder_path / CODEMAP_FILE, relative to the root.
codemap_path(folder) ==
    IF folder = RootFolder THEN CODEMAP_FILE ELSE folder \o <<"/">> \o CODEMAP_FILE

CodemapPaths == {codemap_path(folder) : folder \in {RootFolder, Folder_a, Folder_ab}}
RepoPaths == UserPaths \cup CodemapPaths \cup {GITIGNORE_FILE}

\* The .gitignore texts the environment writes, as lines.
GitignoreTexts == << <<<<"#", " ", "b", "u", "i", "l", "d">>, <<>>, <<" ", "a", "/", " ">>>> >>

CorruptState == [tag |-> "corrupt"]

\* Every file that exists under the root, the state file included.
tree_of(fs, snap) ==
    {p \in DOMAIN fs : fs[p] # NoFile} \cup (IF snap = NoState THEN {} ELSE {StatePath})

\* What is read from a path of the tree.
file_at(fs, snap, path) ==
    IF path = StatePath
    THEN [kind |-> "state", v |-> IF snap.tag = "state" THEN snap.metadata.last_run ELSE 0]
    ELSE fs[path]

\* load_gitignore
load_gitignore(fs) ==
    IF fs[GITIGNORE_FILE] = NoFile THEN <<>>
    ELSE gitignore_lines(GitignoreTexts[fs[GITIGNORE_FILE].v])

\* load_state: None when the file is missing or does not parse.
load_state(snap) == IF snap.tag = "state" THEN snap ELSE NoState

\* save_state: the file holds the state given (json.dump, read back by json.load).
save_state(state) == state

\* The loop `file_hashes[rel_path] = compute_file_hash(f)` over the selection.
hash_selected(fs, snap, selected) ==
    [rel_path \in seq_set(selected) |-> compute_file_hash(file_at(fs, snap, rel_path))]

\* The loop `folder_hashes[folder] = compute_folder_hash(folder, file_hashes)`.
hash_folders(folders, file_hashes) ==
    [folder \in folders |-> compute_folder_hash(folder, file_hashes)]

\* create_empty_codemap for every folder: written only where none exists.
create_empty_codemaps(fs, folders) ==
    [p \in DOMAIN fs |->
        IF (\E folder \in folders : p = codemap_path(folder)) /\ fs[p] = NoFile
        THEN CodemapStub
        ELSE fs[p]]

\* args.include or ["**/*"]
include_or_default(args) == IF args.include = <<>> THEN DEFAULT_INCLUDE ELSE args.include

\* select_files on the root with the lists of the metadata and the live ignore file.
select_with(metadata, fs, snap) ==
    select_files(tree_of(fs, snap), metadata.include_patterns, metadata.exclude_patterns,
                 metadata.exceptions, load_gitignore(fs))

\* The state dict of cmd_init.
init_state(metadata, file_hashes, folders) ==
    [tag |-> "state",
     metadata |-> metadata,
     file_hashes |-> file_hashes,
     folder_hashes |-> hash_folders(folders, file_hashes)]

\* cmd_init from the selection on: hash, save, then create the codemaps.
init_scan(metadata, selected_files, fs, snap) ==
    [files |-> create_empty_codemaps(fs, get_folders_with_files(selected_files)),
     snapshot |-> save_state(init_state(metadata,
                                        hash_selected(fs, snap, selected_files),
                                        get_folders_with_files(selected_files))),
     exit |-> 0]

\* cmd_init: the files, the state file and the exit code it leaves.
cmd_init(args, now, fs, snap) ==
    IF ~args.root_is_dir
    THEN [files |-> fs, snapshot |-> snap, exit |-> 1]
    ELSE init_scan([version |-> VERSION,
                    last_run |-> now,
                    root |-> RepoRoot,
                    include_patterns |-> include_or_default(args),
                    exclude_patterns |-> args.exclude,
                    exceptions |-> args.exception],
                   select_with([include_patterns |-> include_or_default(args),
                                exclude_patterns |-> args.exclude,
                                exceptions |-> args.exception], fs, snap),
                   fs, snap)

\* What cmd_changes leaves when no state is loaded.
changes_no_state(snap) ==
    [snapshot |-> snap, exit |-> 1, current |-> <<>>, found |-> detect_changes(<<>>, <<>>)]

\* cmd_changes from the current digests on, saving them as well.
changes_compare_saving(state, current_hashes) ==
    [snapshot |-> save_state([state EXCEPT !.file_hashes = current_hashes]),
     exit |-> 0, current |-> current_hashes,
     found |-> detect_changes(state.file_hashes, current_hashes)]

\* cmd_changes that also saves the digests it computed.
cmd_changes_saving(fs, snap) ==
    IF load_state(snap) = NoState
    THEN changes_no_state(snap)
    ELSE changes_compare_saving(load_state(snap),
                                hash_selected(fs, snap,
                                              select_with(load_state(snap).metadata, fs, snap)))

\* cmd_changes from the current digests on: the state file is not written.
changes_compare(state, snap, current_hashes) ==
    [snapshot |-> snap, exit |-> 0, current |-> current_hashes,
     found |-> detect_changes(state.file_hashes, current_hashes)]

\* cmd_changes: the state file and exit code it leaves, and what it found.
cmd_changes(fs, snap) ==
    IF load_state(snap) = NoState
    THEN changes_no_state(snap)
    ELSE changes_compare(load_state(snap), snap,
                         hash_selected(fs, snap,
                                       select_with(load_state(snap).metadata, fs, snap)))

\* The update of the state dict that writes the new digests over the old map.
update_state_patching(state, now, new_hashes, folders) ==
    [state EXCEPT !.metadata.last_run = now,
                  !.file_hashes = [path \in DOMAIN state.file_hashes \cup DOMAIN new_hashes |->
                                      IF path \in DOMAIN new_hashes THEN new_hashes[path]
                                      ELSE state.file_hashes[path]],
                  !.folder_hashes = hash_folders(folders, new_hashes)]

update_scan_patching(state, now, selected_files, fs, snap) ==
    [snapshot |-> save_state(update_state_patching(state, now,
                                                   hash_selected(fs, snap, selected_files),
                                                   get_folders_with_files(selected_files))),
     exit |-> 0]

\* cmd_update that writes the new digests over the old map, entry by entry.
cmd_update_patching(now, fs, snap) ==
    IF load_state(snap) = NoState
    THEN [snapshot |-> snap, exit |-> 1]
    ELSE update_scan_patching(load_state(snap), now,
                              select_with(load_state(snap).metadata, fs, snap), fs, snap)

\* The three assignments to the state dict of cmd_update.
update_state(state, now, file_hashes, folders) ==
    [state EXCEPT !.metadata.last_run = now,
                  !.file_hashes = file_hashes,
                  !.folder_hashes = hash_folders(folders, file_hashes)]

\* cmd_update from the selection on: hash, update the state dict, save.
update_scan(state, now, selected_files, fs, snap) ==
    [snapshot |-> save_state(update_state(state, now,
                                          hash_selected(fs, snap, selected_files),
                                          get_folders_with_files(selected_files))),
     exit |-> 0]

\* cmd_update: the state file and exit code it leaves.
cmd_update(now, fs, snap) ==
    IF load_state(snap) = NoState
    THEN [snapshot |-> snap, exit |-> 1]
    ELSE update_scan(load_state(snap), now,
                     select_with(load_state(snap).metadata, fs, snap), fs, snap)

(***************************************************************************)
(* The workflow: commands run one at a time, the environment edits the     *)
(* tree between them.                                                      *)
(***************************************************************************)
\* The command lines of `init` that are run.
InitArgs ==
    {[root_is_dir |-> FALSE, include |-> <<>>, exclude |-> <<>>, exception |-> <<>>],
     [root_is_dir |-> TRUE, include |-> <<>>, exclude |-> <<>>, exception |-> <<>>],
     [root_is_dir |-> TRUE, include |-> <<Pat_ts>>, exclude |-> <<Pat_a_dir>>,
      exception |-> <<Path_abc, StatePath>>]}

Ran(cmd, exit) ==
    [cmd |-> cmd, exit |-> exit, current |-> <<>>,
     added |-> {}, removed |-> {}, modified |-> {}, affected |-> {}]

Init ==
    /\ files \in {fs \in [RepoPaths -> {NoFile, Data(1)}] :
                     \A p \in RepoPaths \ UserPaths : fs[p] = NoFile}
    /\ snapshot = NoState
    /\ report = NoReport
    /\ lastWrite = "none"
    /\ mat = NoMatchCall
    /\ sel = NoSelectCall
    /\ dif = NoDiffCall

\* The state a run of init, changes or update leaves.
InitRan(r) ==
    /\ files' = r.files
    /\ snapshot' = r.snapshot
    /\ report' = Ran("init", r.exit)
    /\ lastWrite' = IF r.exit = 0 THEN "init" ELSE lastWrite
    /\ UNCHANGED <<mat, sel, dif>>

ChangesRan(r) ==
    /\ snapshot' = r.snapshot
    /\ report' = [cmd |-> "changes", exit |-> r.exit, current |-> r.current,
                  added |-> r.found.added, removed |-> r.found.removed,
                  modified |-> r.found.modified, affected |-> r.found.affected]
    /\ UNCHANGED <<files, lastWrite, mat, sel, dif>>

UpdateRan(r) ==
    /\ snapshot' = r.snapshot
    /\ report' = Ran("update", r.exit)
    /\ lastWrite' = IF r.exit = 0 THEN "update" ELSE lastWrite
    /\ UNCHANGED <<files, mat, sel, dif>>

CmdInit ==
    \E args \in InitArgs, now \in 1..MaxTime : InitRan(cmd_init(args, now, files, snapshot))

CmdChanges == ChangesRan(cmd_changes(files, snapshot))

CmdUpdate ==
    \E now \in 1..MaxTime : UpdateRan(cmd_update(now, files, snapshot))

\* The environment writes, removes or locks a file of the tree.
EnvWrite ==
    \E p \in UserPaths, n \in 1..MaxContent :
        /\ files[p] # Data(n)
        /\ files' = [files EXCEPT ![p] = Data(n)]
        /\ report' = Ran("env", 0)
        /\ lastWrite' = "env"
        /\ UNCHANGED <<snapshot, mat, sel, dif>>

EnvRemove ==
    \E p \in UserPaths :
        /\ files[p] # NoFile
        /\ files' = [files EXCEPT ![p] = NoFile]
        /\ report' = Ran("env", 0)
        /\ lastWrite' = "env"
        /\ UNCHANGED <<snapshot, mat, sel, dif>>

EnvLock ==
    \E p \in UserPaths :
        /\ files[p].kind = "data"
        /\ files' = [files EXCEPT ![p] = Unreadable]
        /\ report' = Ran("env", 0)
        /\ lastWrite' = "env"
        /\ UNCHANGED <<snapshot, mat, sel, dif>>

EnvGitignore ==
    \E g \in {NoFile} \cup {GitignoreText(n) : n \in 1..Len(GitignoreTexts)} :
        /\ files[GITIGNORE_FILE] # g
        /\ files' = [files EXCEPT ![GITIGNORE_FILE] = g]
        /\ report' = Ran("env", 0)
        /\ lastWrite' = "env"
        /\ UNCHANGED <<snapshot, mat, sel, dif>>

\* The environment damages or removes the state file.
EnvState ==
    \E s \in {NoState, CorruptState} :
        /\ snapshot # s
        /\ snapshot' = s
        /\ report' = Ran("env", 0)
        /\ lastWrite' = "env"
        /\ UNCHANGED <<files, mat, sel, dif>>

Next ==
    \/ CmdInit
    \/ CmdChanges
    \/ CmdUpdate
    \/ EnvWrite
    \/ EnvRemove
    \/ EnvLock
    \/ EnvGitignore
    \/ EnvState

Spec == Init /\ [][Next]_vars

(***************************************************************************)
(* Claims about PatternMatcher and select_files.                           *)
(***************************************************************************)
\* The items match the whole of s, its last character included.
FullMatch(items, s) == re_match(items \o <<Eos>>, s, 1)

\* Some pattern's fragment matches the whole of a suffix of path that starts
\* at the start of path or right after a '/'; for a pattern with a leading
\* '/', the fragment without it matches the whole path.
DepthAnchored(patterns, path) ==
    \E n \in 1..Len(patterns) :
        LET P == patterns[n]
        IN  IF startswith(P, <<"/">>)
            THEN FullMatch(re_parse(Tail(glob_fragment(P))), path)
            ELSE \E k \in 1..(Len(path) + 1) :
                    /\ k = 1 \/ path[k - 1] = "/"
                    /\ FullMatch(re_parse(glob_fragment(P)), SubSeq(path, k, Len(path)))

AnchoringExamples ==
    /\ matches(PatternMatcher(<<Pat_node_modules>>), Path_nm_foo)
    /\ matches(PatternMatcher(<<Pat_node_modules>>), Path_vendor_nm_bar)
    /\ matches(PatternMatcher(<<Pat_log>>), Path_error_log)
    /\ matches(PatternMatcher(<<Pat_log>>), Path_logs_access)
    /\ matches(PatternMatcher(<<Pat_src_ts>>), Path_src_index)
    /\ matches(PatternMatcher(<<Pat_src_ts>>), Path_src_utils_helper)
    /\ \A P \in {Pat_node_modules, Pat_log, Pat_src_ts} :
           /\ ~matches(PatternMatcher(<<P>>), Path_README)
           /\ ~matches(PatternMatcher(<<P>>), Path_tests_test)

\* C9: matches(path) is true iff some pattern of the list, anchored by depth as
\* above, matches the whole of path (or of a suffix after a '/'); an empty list
\* matches nothing; and the listed examples match or do not match as stated.
C9_DepthAnchoring ==
    /\ AnchoringExamples
    /\ mat.done => (mat.result <=> DepthAnchored(mat.patterns, mat.path))

\* What C9 states, for every path that does not end in a newline.
C9_ExceptTrailingNewline ==
    /\ AnchoringExamples
    /\ (mat.done /\ ~endswith(mat.path, <<"\n">>))
           => (mat.result <=> DepthAnchored(mat.patterns, mat.path))

\* A directory component of p starts with '.'.
UnderHiddenDir(p) ==
    \E i \in 1..Len(p) :
        /\ p[i] = "."
        /\ i = 1 \/ p[i - 1] = "/"
        /\ \E j \in (i + 1)..Len(p) : p[j] = "/"

SelExceptionSet == seq_set(sel.exceptions)
SelSelected == seq_set(sel.selected)
SelIgnored(p) == matches(PatternMatcher(sel.gitignore), p)
SelIncluded(p) == matches(PatternMatcher(sel.include), p)
SelExcluded(p) == matches(PatternMatcher(sel.exclude), p)

\* C2: a path that matches the ignore-file predicate is never returned by
\* select_files, whatever the include, exclude and exception lists are.
C2_IgnorePrecedence ==
    sel.done =>
        /\ SelSelected \subseteq sel.tree
        /\ \A p \in sel.tree : SelIgnored(p) => p \notin SelSelected

\* An ignored path that is listed as an exception and included was dropped.
C2_Witness ==
    /\ sel.done
    /\ \E p \in sel.tree :
           /\ SelIgnored(p)
           /\ p \in SelExceptionSet
           /\ ~UnderHiddenDir(p)
           /\ p \notin SelSelected

\* C3: a discovered file that is not ignored is selected iff it is an exception,
\* or it is included and not excluded; and the scenario of test_select_files
\* selects exactly package.json and src/index.ts.
C3_SelectionRule ==
    sel.done =>
        /\ \A p \in sel.tree :
               (~UnderHiddenDir(p) /\ ~SelIgnored(p)) =>
                   (p \in SelSelected
                        <=> (p \in SelExceptionSet \/ (SelIncluded(p) /\ ~SelExcluded(p))))
        /\ ( /\ sel.tree = TestTree
             /\ sel.include = TestIncludes
             /\ sel.exclude = TestExcludes
             /\ sel.exceptions = <<>>
             /\ sel.gitignore = <<>> )
               => sel.selected = <<Path_package_json, Path_src_index>>

\* An excluded exception that no include pattern matches was selected.
C3_Witness ==
    /\ sel.done
    /\ \E p \in sel.tree :
           /\ SelExcluded(p)
           /\ p \in SelExceptionSet
           /\ ~SelIncluded(p)
           /\ ~SelIgnored(p)
           /\ p \in SelSelected

(***************************************************************************)
(* Claims about the change detector.                                       *)
(***************************************************************************)
DifChanged == dif.added \cup dif.removed \cup dif.modified

\* The paths on which the two maps of the harness disagree.
DifDisagree ==
    {p \in DOMAIN dif.saved \cup DOMAIN dif.current :
        \/ p \notin DOMAIN dif.saved
        \/ p \notin DOMAIN dif.current
        \/ dif.saved[p] # dif.current[p]}

\* C5: added, removed and modified are the paths only in current, only in
\* saved, and in both with differing digests; they are pairwise disjoint, their
\* union is the set of paths on which the maps disagree, and a path with the
\* unreadable sentinel in both maps is in none of them.
C5_Partition ==
    dif.done =>
        /\ dif.added = DOMAIN dif.current \ DOMAIN dif.saved
        /\ dif.removed = DOMAIN dif.saved \ DOMAIN dif.current
        /\ dif.modified = {p \in DOMAIN dif.saved \cap DOMAIN dif.current :
                              dif.saved[p] # dif.current[p]}
        /\ dif.added \cap dif.removed = {}
        /\ dif.added \cap dif.modified = {}
        /\ dif.removed \cap dif.modified = {}
        /\ DifChanged = DifDisagree
        /\ \A p \in DOMAIN dif.saved \cap DOMAIN dif.current :
               (dif.saved[p] = SentinelDigest /\ dif.current[p] = SentinelDigest)
                   => p \notin DifChanged

\* A diff with an added and a modified path, and a path unreadable on both sides.
C5_Witness ==
    /\ dif.done
    /\ dif.added # {}
    /\ dif.modified # {}
    /\ \E p \in DOMAIN dif.saved \cap DOMAIN dif.current :
           dif.saved[p] = SentinelDigest /\ dif.current[p] = SentinelDigest

\* The directory prefixes of a path: what precedes each of its '/'.
ProperPrefixes(p) == {SubSeq(p, 1, i - 1) : i \in {k \in 1..Len(p) : p[k] = "/"}}

\* C6: when the change set is non-empty the affected folders are the root and
\* every directory prefix of every changed path, no other folder, whether or
\* not the folder still holds a tracked file; a change to a/b/c.ts alone
\* gives ".", "a" and "a/b".
C6_AncestorCoverage ==
    (dif.done /\ DifChanged # {}) =>
        /\ dif.affected = {RootFolder} \cup UNION {ProperPrefixes(p) : p \in DifChanged}
        /\ DifChanged = {Path_abc} => dif.affected = {RootFolder, Folder_a, Folder_ab}

\* a/b/c.ts was removed, nothing else changed, and nothing is left under a/.
C6_Witness ==
    /\ dif.done
    /\ dif.removed = {Path_abc}
    /\ dif.added = {}
    /\ dif.modified = {}
    /\ \A p \in DOMAIN dif.current : ~startswith(p, <<"a", "/">>)
    /\ dif.affected = {RootFolder, Folder_a, Folder_ab}

(***************************************************************************)
(* Claims about the workflow.                                              *)
(***************************************************************************)
ReportEmpty == report.added = {} /\ report.removed = {} /\ report.modified = {}

\* C1: `changes` run right after `init`, with nothing but the tool writing
\* under the root in between, finds no added, removed or modified path.
C1_RoundTrip ==
    (report.cmd = "changes" /\ lastWrite = "init") => ReportEmpty

\* C4: every folder digest recorded by init or update, the root's included, is
\* the digest of the sorted (path, digest) pairs of every tracked file in the
\* folder's subtree, and is not the empty-folder sentinel when that subtree
\* holds a tracked file.
C4_FolderSubtree ==
    snapshot.tag = "state" =>
        \A folder \in DOMAIN snapshot.folder_hashes :
            /\ snapshot.folder_hashes[folder]
                   = compute_folder_hash_subtree(folder, snapshot.file_hashes)
            /\ (\E p \in DOMAIN snapshot.file_hashes :
                    folder = RootFolder \/ startswith(p, folder \o <<"/">>))
                   => snapshot.folder_hashes[folder] # FolderSentinel

\* C7: `update` on an existing snapshot succeeds and leaves as file digests
\* exactly the current digests of the files that the stored pattern lists and
\* the live ignore file select, as folder digests those recomputed from that
\* map, and the metadata unchanged but for last_run.
C7_UpdateCommits ==
    [][(report'.cmd = "update" /\ snapshot.tag = "state") =>
          LET m == snapshot.metadata
              chosen == select_files(tree_of(files, snapshot), m.include_patterns,
                                     m.exclude_patterns, m.exceptions, load_gitignore(files))
          IN  /\ report'.exit = 0
              /\ files' = files
              /\ snapshot'.tag = "state"
              /\ DOMAIN snapshot'.file_hashes = seq_set(chosen)
              /\ \A p \in seq_set(chosen) :
                     snapshot'.file_hashes[p] = compute_file_hash(file_at(files, snapshot, p))
              /\ snapshot'.folder_hashes
                     = [folder \in get_folders_with_files(chosen) |->
                           compute_folder_hash(folder, snapshot'.file_hashes)]
              /\ snapshot'.metadata.version = m.version
              /\ snapshot'.metadata.root = m.root
              /\ snapshot'.metadata.include_patterns = m.include_patterns
              /\ snapshot'.metadata.exclude_patterns = m.exclude_patterns
              /\ snapshot'.metadata.exceptions = m.exceptions]_vars

\* An update under stored, non-default lists that left an existing file out.
C7_Witness ==
    /\ report.cmd = "update"
    /\ report.exit = 0
    /\ snapshot.metadata.include_patterns # DEFAULT_INCLUDE
    /\ snapshot.file_hashes # <<>>
    /\ \E p \in UserPaths : files[p] # NoFile /\ p \notin DOMAIN snapshot.file_hashes

\* C8: `changes` leaves the state file and the tree as they were, exits 0 when
\* a snapshot was loaded, and exits non-zero when the state file is missing
\* or does not parse.
C8_ChangesReadOnly ==
    [][report'.cmd = "changes" =>
          /\ snapshot' = snapshot
          /\ files' = files
          /\ snapshot.tag = "state" => report'.exit = 0
          /\ snapshot.tag # "state" => report'.exit # 0]_vars

\* `changes` reported differences and the snapshot still holds the old digests.
C8_Witness ==
    /\ report.cmd = "changes"
    /\ report.exit = 0
    /\ report.added # {}
    /\ report.modified # {}
    /\ snapshot.file_hashes # report.current

\* C10: `changes` run right after a successful `update` finds nothing, and no
\* path under a hidden directory (the state file's among them) is ever
\* recorded in the snapshot or seen by `changes`.
C10_CommitIdempotence ==
    /\ (report.cmd = "changes" /\ lastWrite = "update") => ReportEmpty
    /\ snapshot.tag = "state" =>
           \A p \in DOMAIN snapshot.file_hashes : ~UnderHiddenDir(p)
    /\ report.cmd = "changes" => \A p \in DOMAIN report.current : ~UnderHiddenDir(p)

\* `changes` ran right after an update whose stored lists name the state file
\* as an exception and match it by an include pattern.
C10_Witness ==
    /\ report.cmd = "changes"
    /\ report.exit = 0
    /\ lastWrite = "update"
    /\ snapshot.file_hashes # <<>>
    /\ \E i \in 1..Len(snapshot.metadata.exceptions) :
           snapshot.metadata.exceptions[i] = StatePath

====
